---- MODULE Spec2Model ----
(***************************************************************************)
(* The exoplanet compilation pipeline: ExoplanetDataCollector              *)
(* (exoplanet_data_sources.py), the fallback generator                     *)
(* (demo_data_generator.py) and the command-line entry point (main.py).    *)
(*                                                                         *)
(* Numbers.  The program computes with IEEE doubles; the model computes    *)
(* with integers.  A real-valued field holds its value in units of 1e-4   *)
(* (1.5 AU is 15000), except the two Earth-unit fields, which are kept in  *)
(* the finer unit that makes the product with the conversion constant      *)
(* exact: planet_radius_earth in 1e-7 Earth radii, planet_mass_earth in    *)
(* 1e-5 Earth masses.  A missing number (numpy's nan) is NaN, which every  *)
(* arithmetic operator propagates and every comparison answers FALSE to,   *)
(* as IEEE does.  A missing value in a text column is NaNStr.              *)
(***************************************************************************)
EXTENDS Integers, Sequences, FiniteSets, TLC

VARIABLES
    nasa_data,      \* ExoplanetDataCollector.nasa_data
    eu_data,        \* ExoplanetDataCollector.eu_data
    oec_data,       \* ExoplanetDataCollector.oec_data
    combined_data,  \* ExoplanetDataCollector.combined_data
    files,          \* the file system: file name -> content
    stdout,         \* the messages printed so far (a set of message keys)
    args,           \* the parsed command line of main.py
    pc,             \* the position of the running program
    exc,            \* the exception that left the program, or "none"
    last,           \* the operation that ran last
    ret,            \* what the last collector or generator call returned
    num_planets,    \* the argument of generate_demo_data
    radius_earth,   \* the argument of classify_planet_type
    planet_type,    \* what classify_planet_type returned
    success         \* main of exoplanet_data_sources: a fetch gave rows

vars == <<nasa_data, eu_data, oec_data, combined_data, files, stdout, args,
          pc, exc, last, ret, num_planets, radius_earth, planet_type, success>>

----------------------------------------------------------------------------
(* Numbers *)

Unit == 10 * 1000               \* 1.0 in a real-valued field
NaN == -(2^30 + (2^30 - 1))     \* numpy.nan
Inf == 2^30 + (2^30 - 1)        \* numpy.inf, of either sign
NaNStr == "<NaN>"               \* numpy.nan in a text column

IsNa(v) == v = NaN              \* pd.isna on a number
Abs(a) == IF a < 0 THEN -a ELSE a
Max(a, b) == IF a > b THEN a ELSE b

\* a * k for a plain factor k (a change of unit is part of k)
Times(a, k) ==
    IF a = NaN \/ k = NaN THEN NaN ELSE IF a = Inf THEN Inf ELSE a * k

\* a / k for a plain divisor k
DivBy(a, k) == IF a = NaN THEN NaN ELSE a \div k

\* a * b of two values in units of 1e-4, rounded down to the unit
FMul(a, b) ==
    IF a = NaN \/ b = NaN THEN NaN
    ELSE a * (b \div Unit) + (a \div Unit) * (b % Unit)
           + ((a % Unit) * (b % Unit)) \div Unit

\* the next `digits` decimal digits of r / b, appended to acc
RECURSIVE LongDiv(_, _, _, _)
LongDiv(r, b, digits, acc) ==
    IF digits = 0 THEN acc
    ELSE LongDiv((r * 10) % b, b, digits - 1, acc * 10 + (r * 10) \div b)

\* a / b of two values in units of 1e-4; numpy gives nan for 0/0 and inf
\* for any other division by zero
FDiv(a, b) ==
    IF a = NaN \/ b = NaN \/ (a = 0 /\ b = 0) THEN NaN
    ELSE IF b = 0 THEN Inf
    ELSE LET q == LongDiv(Abs(a) % Abs(b), Abs(b), 4, Abs(a) \div Abs(b))
         IN  IF (a < 0) = (b < 0) THEN q ELSE -q

\* IEEE comparisons: FALSE as soon as one side is nan
Lt(a, b) == a # NaN /\ b # NaN /\ a < b
Le(a, b) == a # NaN /\ b # NaN /\ a <= b
Ge(a, b) == a # NaN /\ b # NaN /\ a >= b
Gt(a, b) == a # NaN /\ b # NaN /\ a > b

Square(a) == FMul(a, a)
Cube(a) == FMul(FMul(a, a), a)
Pow4(a) == Square(Square(a))
Pow5(a) == FMul(Pow4(a), a)

\* the largest y in lo..hi with P(y) <= n, for a nondecreasing P
RECURSIVE RootBetween(_, _, _, _)
RootBetween(P(_), n, lo, hi) ==
    IF lo >= hi THEN lo
    ELSE LET mid == (lo + hi + 1) \div 2
         IN  IF P(mid) <= n THEN RootBetween(P, n, mid, hi)
             ELSE RootBetween(P, n, lo, mid - 1)

RootLimit == 40 * Unit          \* no root the model takes exceeds 40.0

\* np.sqrt, and x ** 0.5
Sqrt(a) == IF a = NaN \/ a < 0 THEN NaN ELSE RootBetween(Square, a, 0, RootLimit)
\* x ** (2/3)
Pow23(a) == IF a = NaN \/ a < 0 THEN NaN ELSE RootBetween(Cube, Square(a), 0, RootLimit)
\* x ** 0.8
Pow08(a) == IF a = NaN \/ a < 0 THEN NaN ELSE RootBetween(Pow5, Pow4(a), 0, 5 * Unit)
\* x ** 0.25
Pow025(a) == Sqrt(Sqrt(a))

Pi == 31416                     \* np.pi in units of 1e-4
DegreesPerRadian == 573         \* 180 / pi in units of 1e-1

\* np.radians: degrees to radians, both in units of 1e-4
Radians(deg) == IF deg = NaN THEN NaN ELSE (deg * 10) \div DegreesPerRadian

\* the sine of an angle in [0, pi] by Bhaskara's rational formula
\*     sin x = 16 x (pi - x) / (5 pi^2 - 4 x (pi - x))
SinHalfTurn(x) ==
    LET p == FMul(x, Pi - x)
    IN  (16 * p * 1000) \div ((5 * FMul(Pi, Pi) - 4 * p) \div 10)

\* np.sin and np.cos of an angle in radians
Sin(x) ==
    IF x = NaN THEN NaN
    ELSE LET y == x % (2 * Pi)
         IN  IF y <= Pi THEN SinHalfTurn(y) ELSE -SinHalfTurn(y - Pi)
Cos(x) == IF x = NaN THEN NaN ELSE Sin(x + Pi \div 2)

----------------------------------------------------------------------------
(* Tables.  A DataFrame is the sequence of its rows; a row is a record     *)
(* whose fields are the table's columns.  A slot of the collector is None  *)
(* or holds a table.                                                       *)

None == [some |-> FALSE, t |-> <<>>]
Some(t) == [some |-> TRUE, t |-> t]

\* DataFrame.columns: an empty list of dicts makes a table with no column
Columns(t) == IF t = <<>> THEN {} ELSE DOMAIN t[1]

\* row.get(col, default) of a row of iterrows()
Get(row, col, default) == IF col \in DOMAIN row THEN row[col] ELSE default

\* p['planet_name'] == planet_name in Python: nan equals nothing
PyEq(a, b) == a # NaNStr /\ b # NaNStr /\ a = b

Range(s) == {s[i] : i \in DOMAIN s}

----------------------------------------------------------------------------
(* demo_data_generator.py *)

Digit == <<"0", "1", "2", "3", "4", "5", "6", "7", "8", "9">>

RECURSIVE Decimal(_)
Decimal(n) == IF n < 10 THEN Digit[n + 1] ELSE Decimal(n \div 10) \o Digit[(n % 10) + 1]

\* f'{n:03d}'
Format03d(n) ==
    IF n < 10 THEN "00" \o Decimal(n)
    ELSE IF n < 100 THEN "0" \o Decimal(n)
    ELSE Decimal(n)

DemoSource == "Demo Data"

famous_planets == <<
    [planet_name |-> "Proxima Centauri b", host_star |-> "Proxima Centauri",
     discovery_method |-> "Radial Velocity", discovery_year |-> 2016,
     orbital_period_days |-> 111860, planet_radius_jupiter |-> 990,
     planet_mass_jupiter |-> 40, orbital_distance_au |-> 485,
     eccentricity |-> 200, equilibrium_temp_k |-> 2340000,
     stellar_distance_pc |-> 13000, stellar_mass_solar |-> 1200,
     stellar_radius_solar |-> 1540, stellar_temp_k |-> 30420000,
     ra_deg |-> 2174000, dec_deg |-> -627000, data_source |-> DemoSource],
    [planet_name |-> "TRAPPIST-1e", host_star |-> "TRAPPIST-1",
     discovery_method |-> "Transit", discovery_year |-> 2017,
     orbital_period_days |-> 61000, planet_radius_jupiter |-> 830,
     planet_mass_jupiter |-> 20, orbital_distance_au |-> 280,
     eccentricity |-> 0, equilibrium_temp_k |-> 2460000,
     stellar_distance_pc |-> 125000, stellar_mass_solar |-> 890,
     stellar_radius_solar |-> 1210, stellar_temp_k |-> 25660000,
     ra_deg |-> 3466000, dec_deg |-> -50000, data_source |-> DemoSource],
    [planet_name |-> "Kepler-452b", host_star |-> "Kepler-452",
     discovery_method |-> "Transit", discovery_year |-> 2015,
     orbital_period_days |-> 3848000, planet_radius_jupiter |-> 1420,
     planet_mass_jupiter |-> 160, orbital_distance_au |-> 10460,
     eccentricity |-> 0, equilibrium_temp_k |-> 2650000,
     stellar_distance_pc |-> 4300000, stellar_mass_solar |-> 10400,
     stellar_radius_solar |-> 11100, stellar_temp_k |-> 57570000,
     ra_deg |-> 2929000, dec_deg |-> 443000, data_source |-> DemoSource],
    [planet_name |-> "51 Pegasi b", host_star |-> "51 Pegasi",
     discovery_method |-> "Radial Velocity", discovery_year |-> 1995,
     orbital_period_days |-> 42300, planet_radius_jupiter |-> 12000,
     planet_mass_jupiter |-> 4700, orbital_distance_au |-> 527,
     eccentricity |-> 130, equilibrium_temp_k |-> 12840000,
     stellar_distance_pc |-> 154000, stellar_mass_solar |-> 11100,
     stellar_radius_solar |-> 12400, stellar_temp_k |-> 57930000,
     ra_deg |-> 3444000, dec_deg |-> 208000, data_source |-> DemoSource],
    [planet_name |-> "HD 189733 b", host_star |-> "HD 189733",
     discovery_method |-> "Transit", discovery_year |-> 2005,
     orbital_period_days |-> 22200, planet_radius_jupiter |-> 11400,
     planet_mass_jupiter |-> 11300, orbital_distance_au |-> 310,
     eccentricity |-> 0, equilibrium_temp_k |-> 12010000,
     stellar_distance_pc |-> 198000, stellar_mass_solar |-> 8200,
     stellar_radius_solar |-> 7600, stellar_temp_k |-> 48750000,
     ra_deg |-> 3002000, dec_deg |-> 227000, data_source |-> DemoSource] >>

detection_methods ==
    <<"Transit", "Radial Velocity", "Direct Imaging", "Microlensing",
      "Transit Timing Variations">>

Seed == 42

\* The k-th draw of iteration i of the generator seeded with Seed, as a
\* whole number in lo..hi.  numpy's generator is not reproduced: the model
\* keeps that a draw is a fixed function of the seed and of its place in
\* the sequence of draws, and lies in the support of its distribution.
Draw(i, k, lo, hi) ==
    lo + ((Seed + 7919 * (i + 1) * k + 104729 * k) % (hi - lo + 1))

\* np.random.choice(detection_methods, p=[0.75, 0.15, 0.05, 0.03, 0.02])
Choice(u) ==
    IF u < 75 THEN detection_methods[1]
    ELSE IF u < 90 THEN detection_methods[2]
    ELSE IF u < 95 THEN detection_methods[3]
    ELSE IF u < 98 THEN detection_methods[4]
    ELSE detection_methods[5]

SunTemp == 5778                 \* the Sun's effective temperature, K
DaysPerYear == 3652500          \* 365.25 in units of 1e-4

\* the body of the loop of generate_demo_data, for one i of the range
RandomPlanet(i) ==
    LET method == Choice(Draw(i, 1, 0, 99))
        year == Draw(i, 2, 1995, 2023)
        radius_jup == Draw(i, 3, 500, 3 * Unit)
        mass_jup == Draw(i, 4, 10, 5 * Unit)
        orbital_period == Draw(i, 5, 10 * Unit, 1000 * Unit)
        orbital_distance == Pow23(FDiv(orbital_period, DaysPerYear))
        stellar_mass == Draw(i, 6, 5000, 2 * Unit)
        stellar_radius == Pow08(stellar_mass)
        stellar_temp == Times(Sqrt(stellar_mass), SunTemp)
        stellar_distance == Draw(i, 7, Unit, 2000 * Unit)
        stellar_luminosity ==
            FMul(Square(stellar_radius), Pow4(DivBy(stellar_temp, SunTemp)))
        eq_temp == Times(FDiv(Pow025(stellar_luminosity), Sqrt(orbital_distance)), 279)
        ra == Draw(i, 8, 0, 360 * Unit)
        dec == Draw(i, 9, -90 * Unit, 90 * Unit)
    IN  [planet_name |-> "Demo Planet " \o Format03d(i + 1),
         host_star |-> "Demo Star " \o Format03d(i + 1),
         discovery_method |-> method,
         discovery_year |-> year,
         orbital_period_days |-> orbital_period,
         planet_radius_jupiter |-> radius_jup,
         planet_mass_jupiter |-> mass_jup,
         orbital_distance_au |-> orbital_distance,
         eccentricity |-> Draw(i, 10, 0, 6000),
         equilibrium_temp_k |-> eq_temp,
         stellar_distance_pc |-> stellar_distance,
         stellar_mass_solar |-> stellar_mass,
         stellar_radius_solar |-> stellar_radius,
         stellar_temp_k |-> stellar_temp,
         ra_deg |-> ra,
         dec_deg |-> dec,
         data_source |-> DemoSource]

\* len(range(n)): a range of a negative length is empty
RangeLen(n) == IF n > 0 THEN n ELSE 0

generate_demo_data(n) ==
    LET count == RangeLen(n - Len(famous_planets))
        random_planets == [j \in 1 .. count |-> RandomPlanet(j - 1)]
    IN  famous_planets \o random_planets

----------------------------------------------------------------------------
(* exoplanet_data_sources.py: the collector's fetches *)

TextColumns ==
    {"planet_name", "host_star", "discovery_method", "data_source", "planet_type"}

\* the missing value pandas fills a column of this name with
Missing(col) == IF col \in TextColumns THEN NaNStr ELSE NaN

\* pd.DataFrame(list of dicts): the columns are the union of the keys, and
\* a row that lacks a key holds a missing value there
DataFrame(dicts) ==
    LET cols == UNION {DOMAIN dicts[i] : i \in DOMAIN dicts}
    IN  [i \in DOMAIN dicts |-> [c \in cols |-> Get(dicts[i], c, Missing(c))]]

\* What a fetch met.  "error" is an exception of the query or the request,
\* "http" a status other than 200, "parse" a body the parser rejects, and
\* "ok" a table.
Failures == {"error", "http", "parse"}
Outcome(kind, t) == [kind |-> kind, t |-> t]

\* a fetch written as "self.nasa_data = None" in its except branch would
\* forget the table of an earlier success
NasaFetchClearing(old, outcome) ==
    IF outcome.kind = "ok" THEN Some(outcome.t) ELSE None

\* fetch_nasa_exoplanet_archive: the whole right-hand side is evaluated
\* before nasa_data is assigned; any exception is caught and None returned
NasaAfterFetch(old, outcome) ==
    IF outcome.kind = "ok" THEN Some(outcome.t) ELSE old
NasaFetchReturn(outcome) ==
    IF outcome.kind = "ok" THEN Some(outcome.t) ELSE None

\* fetch_eu_exoplanet_catalogue: eu_data is assigned only when the status is
\* 200 and read_csv returned; otherwise None is returned
EuAfterFetch(old, outcome) ==
    IF outcome.kind = "ok" THEN Some(outcome.t) ELSE old
EuFetchReturn(outcome) ==
    IF outcome.kind = "ok" THEN Some(outcome.t) ELSE None

\* fetch_open_exoplanet_catalogue: oec_data is assigned only when read_csv
\* returned (a pandas without error_bad_lines raises TypeError: "error")
OecAfterFetch(old, outcome) ==
    IF outcome.kind = "ok" THEN Some(outcome.t) ELSE old
OecFetchReturn(outcome) ==
    IF outcome.kind = "ok" THEN Some(outcome.t) ELSE None

DemoCount == 100

\* load_demo_data: generate_demo_data(100) becomes nasa_data
DemoTable == generate_demo_data(DemoCount)

----------------------------------------------------------------------------
(* create_unified_schema *)

NasaSource == "NASA Exoplanet Archive"
\* the tag of the NASA branch, copied into the EU branch
EuSourceCopied == "NASA Exoplanet Archive"
EuSource == "EU Exoplanet Catalogue"

\* the dict built from a row of the NASA table
NasaMapped(row) ==
    [planet_name |-> Get(row, "pl_name", ""),
     host_star |-> Get(row, "hostname", ""),
     discovery_method |-> Get(row, "discoverymethod", ""),
     discovery_year |-> Get(row, "disc_year", NaN),
     orbital_period_days |-> Get(row, "pl_orbper", NaN),
     planet_radius_jupiter |-> Get(row, "pl_radj", NaN),
     planet_mass_jupiter |-> Get(row, "pl_bmassj", NaN),
     orbital_distance_au |-> Get(row, "pl_orbsmax", NaN),
     eccentricity |-> Get(row, "pl_orbeccen", NaN),
     equilibrium_temp_k |-> Get(row, "pl_eqt", NaN),
     stellar_distance_pc |-> Get(row, "sy_dist", NaN),
     stellar_mass_solar |-> Get(row, "st_mass", NaN),
     stellar_radius_solar |-> Get(row, "st_rad", NaN),
     stellar_temp_k |-> Get(row, "st_teff", NaN),
     ra_deg |-> Get(row, "ra", NaN),
     dec_deg |-> Get(row, "dec", NaN),
     data_source |-> NasaSource]

\* the name read from the 'name' column alone
EuPlanetNameNoHash(row) == Get(row, "name", "")

\* row.get('name', row.get('# name', ''))
EuPlanetName(row) == Get(row, "name", Get(row, "# name", ""))

\* the dict built from a row of the EU table
EuMapped(row) ==
    [planet_name |-> EuPlanetName(row),
     host_star |-> Get(row, "star_name", ""),
     discovery_method |-> Get(row, "detection_type", ""),
     discovery_year |-> Get(row, "discovered", NaN),
     orbital_period_days |-> Get(row, "orbital_period", NaN),
     planet_radius_jupiter |-> Get(row, "radius", NaN),
     planet_mass_jupiter |-> Get(row, "mass", NaN),
     orbital_distance_au |-> Get(row, "semi_major_axis", NaN),
     eccentricity |-> Get(row, "eccentricity", NaN),
     equilibrium_temp_k |-> Get(row, "temp_calculated", NaN),
     stellar_distance_pc |-> Get(row, "star_distance", NaN),
     stellar_mass_solar |-> Get(row, "star_mass", NaN),
     stellar_radius_solar |-> Get(row, "star_radius", NaN),
     stellar_temp_k |-> Get(row, "star_teff", NaN),
     ra_deg |-> Get(row, "ra", NaN),
     dec_deg |-> Get(row, "dec", NaN),
     data_source |-> EuSource]

\* self.nasa_data is not None and len(self.nasa_data) > 0, and likewise
HasRows(slot) == slot.some /\ Len(slot.t) > 0

\* the NASA branch without the test for demo data: every row is mapped
NasaPartAlwaysMapped(nasa) ==
    IF ~HasRows(nasa) THEN <<>>
    ELSE [i \in DOMAIN nasa.t |-> NasaMapped(nasa.t[i])]

\* the NASA branch: every row is appended, a row of a table that has a
\* data_source column as it is, any other row mapped
NasaPart(nasa) ==
    IF ~HasRows(nasa) THEN <<>>
    ELSE LET is_demo == "data_source" \in Columns(nasa.t)
         IN  [i \in DOMAIN nasa.t |->
                 IF is_demo THEN nasa.t[i] ELSE NasaMapped(nasa.t[i])]

\* any(p['planet_name'] == planet_name for p in unified_data)
AlreadyIn(unified_data, planet_name) ==
    \E i \in DOMAIN unified_data : PyEq(unified_data[i].planet_name, planet_name)

\* the EU branch leaving the loop at the first name already collected
\* (break for continue)
RECURSIVE EuPartBreaking(_, _, _)
EuPartBreaking(rows, i, unified_data) ==
    IF i > Len(rows) THEN unified_data
    ELSE IF AlreadyIn(unified_data, EuPlanetName(rows[i]))
         THEN unified_data
         ELSE EuPartBreaking(rows, i + 1, Append(unified_data, EuMapped(rows[i])))

\* the EU branch from row i on: a row is appended unless its name is
\* already in unified_data
RECURSIVE EuPart(_, _, _)
EuPart(rows, i, unified_data) ==
    IF i > Len(rows) THEN unified_data
    ELSE IF AlreadyIn(unified_data, EuPlanetName(rows[i]))
         THEN EuPart(rows, i + 1, unified_data)
         ELSE EuPart(rows, i + 1, Append(unified_data, EuMapped(rows[i])))

\* the two branches in the other order: the EU rows first, then the NASA
\* rows
create_unified_schema_eu_first(nasa, eu) ==
    LET from_eu == IF HasRows(eu) THEN EuPart(eu.t, 1, <<>>) ELSE <<>>
    IN  DataFrame(from_eu \o NasaPart(nasa))

\* the table create_unified_schema stores in combined_data
create_unified_schema(nasa, eu) ==
    LET from_nasa == NasaPart(nasa)
        unified_data == IF HasRows(eu) THEN EuPart(eu.t, 1, from_nasa) ELSE from_nasa
    IN  DataFrame(unified_data)

----------------------------------------------------------------------------
(* enrich_data *)

JupiterRadiusInEarthRadii == 11209  \* 11.209, in units of 1e-3
JupiterMassInEarthMasses == 3178    \* 317.8, in units of 1e-1
JupiterMassGrams == 18980           \* 1.898e27, in units of 1e23
JupiterVolumeCm3 == 14313           \* 1.4313e27, in units of 1e23
FourThirds == (4 * Unit) \div 3     \* 4/3
RockyLimit == 15000000              \* 1.5 Earth radii, in units of 1e-7
SuperEarthLimit == 20000000         \* 2.0
NeptuneLimit == 60000000            \* 6.0
HzInner == 9500                     \* 0.95
HzOuter == 13700                    \* 1.37
DefaultDistance == 100 * Unit       \* fillna(100)

\* the thresholds read as inclusive upper ends
classify_inclusive(r) ==
    IF IsNa(r) THEN "Unknown"
    ELSE IF r <= RockyLimit THEN "Rocky (Earth-like)"
    ELSE IF r <= SuperEarthLimit THEN "Super-Earth"
    ELSE IF r <= NeptuneLimit THEN "Neptune-like"
    ELSE "Jupiter-like"

classify_planet_type(r) ==
    IF IsNa(r) THEN "Unknown"
    ELSE IF r < RockyLimit THEN "Rocky (Earth-like)"
    ELSE IF r < SuperEarthLimit THEN "Super-Earth"
    ELSE IF r < NeptuneLimit THEN "Neptune-like"
    ELSE "Jupiter-like"

\* self.combined_data[col] = f(row), row by row: a new column, or the old
\* one overwritten
Assign(t, col, f(_)) == [i \in DOMAIN t |-> (col :> f(t[i])) @@ t[i]]

\* the conversion after a fillna(0) of its input
RadiusEarthFilled(row) ==
    IF IsNa(row.planet_radius_jupiter) THEN 0
    ELSE Times(row.planet_radius_jupiter, JupiterRadiusInEarthRadii)

RadiusEarth(row) == Times(row.planet_radius_jupiter, JupiterRadiusInEarthRadii)
MassEarth(row) == Times(row.planet_mass_jupiter, JupiterMassInEarthMasses)

\* np.where(mass > 0 & radius > 0, mass * 1.898e27 / (volume * 1.4313e27), nan)
\* the density with the test of the mass alone
DensityMassOnly(row) ==
    LET volume_jupiter == FMul(FMul(FourThirds, Pi), Cube(row.planet_radius_jupiter))
    IN  IF Gt(row.planet_mass_jupiter, 0)
        THEN FDiv(FMul(row.planet_mass_jupiter, JupiterMassGrams),
                  FMul(volume_jupiter, JupiterVolumeCm3))
        ELSE NaN

Density(row) ==
    LET volume_jupiter == FMul(FMul(FourThirds, Pi), Cube(row.planet_radius_jupiter))
    IN  IF Gt(row.planet_mass_jupiter, 0) /\ Gt(row.planet_radius_jupiter, 0)
        THEN FDiv(FMul(row.planet_mass_jupiter, JupiterMassGrams),
                  FMul(volume_jupiter, JupiterVolumeCm3))
        ELSE NaN

PlanetType(row) == classify_planet_type(row.planet_radius_earth)

StellarLuminosity(row) ==
    FMul(Square(row.stellar_radius_solar), Pow4(DivBy(row.stellar_temp_k, SunTemp)))
HzInnerAu(row) == FMul(HzInner, Sqrt(StellarLuminosity(row)))
HzOuterAu(row) == FMul(HzOuter, Sqrt(StellarLuminosity(row)))

\* the zone without its two ends
InHabitableZoneOpen(row) ==
    Gt(row.orbital_distance_au, row.hz_inner_au)
    /\ Lt(row.orbital_distance_au, row.hz_outer_au)

InHabitableZone(row) ==
    Ge(row.orbital_distance_au, row.hz_inner_au)
    /\ Le(row.orbital_distance_au, row.hz_outer_au)

\* the distance taken as it stands, without the default
DistAsIs(row) == row.stellar_distance_pc

\* self.combined_data['stellar_distance_pc'].fillna(100)
Dist(row) ==
    IF IsNa(row.stellar_distance_pc) THEN DefaultDistance ELSE row.stellar_distance_pc
\* the third coordinate made missing whenever the right ascension is, as
\* the other two are
ZPcFromBothAngles(row) ==
    IF IsNa(row.ra_deg) THEN NaN ELSE FMul(Dist(row), Sin(Radians(row.dec_deg)))
XPc(row) == FMul(FMul(Dist(row), Cos(Radians(row.dec_deg))), Cos(Radians(row.ra_deg)))
YPc(row) == FMul(FMul(Dist(row), Cos(Radians(row.dec_deg))), Sin(Radians(row.ra_deg)))
ZPc(row) == FMul(Dist(row), Sin(Radians(row.dec_deg)))

\* one block of enrich_data: the columns it needs, and what it assigns
RadiusStep(t) ==
    IF "planet_radius_jupiter" \in Columns(t)
    THEN Assign(t, "planet_radius_earth", RadiusEarth) ELSE t
MassStep(t) ==
    IF "planet_mass_jupiter" \in Columns(t)
    THEN Assign(t, "planet_mass_earth", MassEarth) ELSE t
DensityStep(t) ==
    IF {"planet_mass_jupiter", "planet_radius_jupiter"} \subseteq Columns(t)
    THEN Assign(t, "density_g_cm3", Density) ELSE t
TypeStep(t) ==
    IF "planet_radius_earth" \in Columns(t)
    THEN Assign(t, "planet_type", PlanetType) ELSE t
HzStep(t) ==
    IF {"stellar_radius_solar", "stellar_temp_k"} \subseteq Columns(t)
    THEN Assign(Assign(t, "hz_inner_au", HzInnerAu), "hz_outer_au", HzOuterAu)
    ELSE t
InHzStep(t) ==
    IF {"orbital_distance_au", "hz_inner_au"} \subseteq Columns(t)
    THEN Assign(t, "in_habitable_zone", InHabitableZone) ELSE t
PositionStep(t) ==
    IF {"ra_deg", "dec_deg"} \subseteq Columns(t)
    THEN Assign(Assign(Assign(t, "x_pc", XPc), "y_pc", YPc), "z_pc", ZPc)
    ELSE t

\* the lookups of enrich_data that no column test guards
EnrichRaises(t) ==
    \/ {"ra_deg", "dec_deg"} \subseteq Columns(t)
       /\ "stellar_distance_pc" \notin Columns(t)
    \/ "hz_inner_au" \in Columns(HzStep(t)) /\ "orbital_distance_au" \in Columns(t)
       /\ "hz_outer_au" \notin Columns(HzStep(t))

\* the blocks of enrich_data with the classification moved to the front,
\* where planet_radius_earth is not yet there on a first call
enrich_data_type_first(slot) ==
    IF ~HasRows(slot) THEN slot
    ELSE Some(PositionStep(InHzStep(HzStep(DensityStep(MassStep(RadiusStep(
              TypeStep(slot.t))))))))

\* the table enrich_data leaves in combined_data
enrich_data(slot) ==
    IF ~HasRows(slot) THEN slot
    ELSE Some(PositionStep(InHzStep(HzStep(TypeStep(DensityStep(MassStep(
              RadiusStep(slot.t))))))))

----------------------------------------------------------------------------
(* Files: save_data, pd.read_csv and the visualizer *)

\* A file name is the sequence of its pieces, ".csv" being a piece of its
\* own wherever it occurs: "my.csv" is <<"my", ".csv">>.
DefaultOutput == <<"exoplanet_combined_data", ".csv">>

\* filename.replace('.csv', '.json')
JsonName(filename) ==
    [i \in DOMAIN filename |-> IF filename[i] = ".csv" THEN ".json" ELSE filename[i]]

\* the columns of a table in the order pandas keeps them: the keys of the
\* dicts, then the derived columns in the order enrich_data adds them
ColumnOrder ==
    <<"planet_name", "host_star", "discovery_method", "discovery_year",
      "orbital_period_days", "planet_radius_jupiter", "planet_mass_jupiter",
      "orbital_distance_au", "eccentricity", "equilibrium_temp_k",
      "stellar_distance_pc", "stellar_mass_solar", "stellar_radius_solar",
      "stellar_temp_k", "ra_deg", "dec_deg", "data_source",
      "planet_radius_earth", "planet_mass_earth", "density_g_cm3",
      "planet_type", "hz_inner_au", "hz_outer_au", "in_habitable_zone",
      "x_pc", "y_pc", "z_pc">>

InColumns(t, c) == c \in Columns(t)
Header(t) == SelectSeq(ColumnOrder, LAMBDA c : InColumns(t, c))

BoolColumns == {"in_habitable_zone"}

\* the text of one cell: a missing value is written as nothing, a text as
\* it stands, True and False by name, a number by its shortest repr (kept
\* as the number)
CsvCell(col, v) ==
    IF col \in TextColumns THEN (IF v = NaNStr THEN "" ELSE v)
    ELSE IF col \in BoolColumns THEN (IF v THEN "True" ELSE "False")
    ELSE v

\* DataFrame.to_csv(filename, index=False): the header line and a line per
\* row; a table with no column gives a file with an empty header line
to_csv(t) ==
    [kind |-> "csv", header |-> Header(t),
     body |-> [i \in DOMAIN t |-> [c \in Columns(t) |-> CsvCell(c, t[i][c])]]]

\* DataFrame.to_json(json_filename, orient='records'): an object per row,
\* a missing value written as null
to_json(t) == [kind |-> "json", header |-> Header(t), body |-> t]

\* the texts pd.read_csv takes for a missing value
NaTexts == {"", "NA", "N/A", "NaN", "nan", "null", "NULL", "None", "n/a", "<NA>", "#N/A"}

ParseCell(col, cell) ==
    IF col \in TextColumns THEN (IF cell \in NaTexts THEN NaNStr ELSE cell)
    ELSE IF col \in BoolColumns THEN cell = "True"
    ELSE cell

\* a reader that reports a file that is not there as a plain OSError
ReadCsvErrorOSError(fs, name) ==
    IF name \notin DOMAIN fs THEN "OSError"
    ELSE IF fs[name].kind # "csv" THEN "ParserError"
    ELSE IF fs[name].header = <<>> THEN "EmptyDataError"
    ELSE "none"

\* pd.read_csv(data_file): FileNotFoundError when there is no such file,
\* ParserError when the file holds the indented JSON or a chart rather than
\* delimited text, EmptyDataError when it has no column to parse
ReadCsvError(fs, name) ==
    IF name \notin DOMAIN fs THEN "FileNotFoundError"
    ELSE IF fs[name].kind # "csv" THEN "ParserError"
    ELSE IF fs[name].header = <<>> THEN "EmptyDataError"
    ELSE "none"

read_csv(fs, name) ==
    LET f == fs[name]
    IN  [i \in DOMAIN f.body |->
            [c \in Range(f.header) |-> ParseCell(c, f.body[i][c])]]

\* save_data: nothing when combined_data is None; else the CSV at filename,
\* then the JSON at the name replace() gives
save_data(fs, combined, filename) ==
    IF ~combined.some THEN fs
    ELSE (JsonName(filename) :> to_json(combined.t))
            @@ ((filename :> to_csv(combined.t)) @@ fs)

\* ExoplanetVisualizer.generate_all_visualizations: the charts in the order
\* they are drawn, each with the file it writes and the columns it reads
Charts ==
    <<[file |-> <<"exoplanet_3d_view", ".html">>,
       needs |-> {"x_pc", "y_pc", "z_pc", "planet_name"}],
      [file |-> <<"exoplanet_mass_radius", ".html">>,
       needs |-> {"planet_mass_earth", "planet_radius_earth", "planet_type",
                  "planet_name", "host_star", "discovery_method"}],
      [file |-> <<"exoplanet_discovery_timeline", ".html">>,
       needs |-> {"discovery_year", "discovery_method"}],
      [file |-> <<"detection_methods", ".png">>,
       needs |-> {"discovery_method"}],
      [file |-> <<"exoplanet_habitable_zone", ".html">>,
       needs |-> {"orbital_distance_au", "equilibrium_temp_k", "in_habitable_zone",
                  "planet_radius_earth", "planet_name", "host_star", "planet_type"}],
      [file |-> <<"stellar_properties", ".png">>,
       needs |-> {"stellar_mass_solar", "stellar_temp_k", "stellar_distance_pc"}],
      [file |-> <<"exoplanet_dashboard", ".html">>,
       needs |-> {"discovery_method", "planet_type", "discovery_year",
                  "planet_mass_earth", "planet_radius_earth", "planet_name"}]>>

Chart == [kind |-> "chart", header |-> <<>>, body |-> <<>>]

\* the charts drawn before the first one that misses a column (KeyError);
\* what the chart libraries do with the values of a column is not modelled
RECURSIVE Drawn(_, _)
Drawn(data, i) ==
    IF i > Len(Charts) \/ ~(Charts[i].needs \subseteq Columns(data)) THEN {}
    ELSE {Charts[i].file} \cup Drawn(data, i + 1)

VisualizerRaises(data) == \E i \in DOMAIN Charts : ~(Charts[i].needs \subseteq Columns(data))

generate_all_visualizations(fs, data) ==
    [n \in Drawn(data, 1) |-> Chart] @@ fs

----------------------------------------------------------------------------
(* What the catalogs can answer.  A NASA table has the columns of the      *)
(* pscomppars table, an EU table those of the exoplanet.eu export; a       *)
(* table may also lack columns the mapping asks for.                       *)

MaxRows == 2                    \* the longest table a catalog answers with

NasaRowA ==
    [pl_name |-> "Kepler-452b", hostname |-> "Kepler-452",
     discoverymethod |-> "Transit", disc_year |-> 2015, pl_orbper |-> 3848000,
     pl_radj |-> 1450, pl_bmassj |-> NaN, pl_orbsmax |-> 10460,
     pl_orbeccen |-> NaN, pl_eqt |-> 2650000, sy_dist |-> NaN,
     st_mass |-> 10400, st_rad |-> 11100, st_teff |-> 57570000,
     ra |-> 2929000, dec |-> 443000]

NasaRowB ==
    [pl_name |-> "HD 189733 b", hostname |-> "HD 189733",
     discoverymethod |-> "Transit", disc_year |-> 2005, pl_orbper |-> 22200,
     pl_radj |-> 11400, pl_bmassj |-> 11300, pl_orbsmax |-> 310,
     pl_orbeccen |-> 0, pl_eqt |-> 12010000, sy_dist |-> 198000,
     st_mass |-> 8200, st_rad |-> 7600, st_teff |-> 48750000,
     ra |-> 3002000, dec |-> 227000]

EuRowA ==
    [name |-> "Kepler-452b", star_name |-> "Kepler-452",
     detection_type |-> "Primary Transit", discovered |-> 2015,
     orbital_period |-> 3848430, radius |-> 1450, mass |-> 160,
     semi_major_axis |-> 10460, eccentricity |-> 0, temp_calculated |-> NaN,
     star_distance |-> 4300000, star_mass |-> 10400, star_radius |-> 11100,
     star_teff |-> 57570000, ra |-> 2929000, dec |-> 443000]

EuRowB ==
    [name |-> "GJ 1214 b", star_name |-> "GJ 1214",
     detection_type |-> "Primary Transit", discovered |-> 2009,
     orbital_period |-> 15804, radius |-> 2450, mass |-> 257,
     semi_major_axis |-> 149, eccentricity |-> NaN, temp_calculated |-> NaN,
     star_distance |-> 146500, star_mass |-> 1500, star_radius |-> NaN,
     star_teff |-> 30260000, ra |-> 2588000, dec |-> 49600]

SeqsUpTo(S, n) == UNION {[1 .. k -> S] : k \in 0 .. n}

\* a NASA answer that lacks most columns, the name among them
NasaNarrow == <<[pl_orbper |-> 35000, pl_radj |-> 2000]>>
\* an EU answer whose name column is headed "# name"
EuHashName ==
    <<("# name" :> "GJ 1214 b") @@ [radius |-> 2450, mass |-> 257],
      ("# name" :> "Kepler-452b") @@ [radius |-> 1450, mass |-> 160]>>
\* an EU answer with neither name column
EuNoName == <<[mass |-> 257, radius |-> 2450], [mass |-> 160, radius |-> 1450]>>

NasaTables == SeqsUpTo({NasaRowA, NasaRowB}, MaxRows) \cup {NasaNarrow}
EuTables == SeqsUpTo({EuRowA, EuRowB}, MaxRows) \cup {EuHashName, EuNoName}
OecTables == {<<[name |-> "GJ 1214"]>>}

Outcomes(tables) ==
    {Outcome(k, <<>>) : k \in Failures} \cup {Outcome("ok", t) : t \in tables}

OutputNames == {DefaultOutput, <<"planets", ".txt">>}

----------------------------------------------------------------------------
(* The calls of the collector, as steps.  Each sets last, ret and the      *)
(* messages of the call, and leaves the rest of the collector alone.       *)

pure == <<num_planets, radius_earth, planet_type, success>>

FetchNasaCall(o) ==
    /\ nasa_data' = NasaAfterFetch(nasa_data, o)
    /\ ret' = NasaFetchReturn(o)
    /\ last' = "fetch_nasa_exoplanet_archive"
    /\ stdout' = IF o.kind = "ok" THEN {"Successfully fetched"}
                 ELSE {"Error fetching NASA data"}
    /\ UNCHANGED <<eu_data, oec_data, combined_data, files>>

FetchEuCall(o) ==
    /\ eu_data' = EuAfterFetch(eu_data, o)
    /\ ret' = EuFetchReturn(o)
    /\ last' = "fetch_eu_exoplanet_catalogue"
    /\ stdout' = IF o.kind = "ok" THEN {"Successfully fetched"}
                 ELSE IF o.kind = "http" THEN {"Failed to fetch EU data"}
                 ELSE {"Error fetching EU data"}
    /\ UNCHANGED <<nasa_data, oec_data, combined_data, files>>

FetchOecCall(o) ==
    /\ oec_data' = OecAfterFetch(oec_data, o)
    /\ ret' = OecFetchReturn(o)
    /\ last' = "fetch_open_exoplanet_catalogue"
    /\ stdout' = IF o.kind = "ok" THEN {"Successfully fetched"}
                 ELSE {"Error fetching OEC data"}
    /\ UNCHANGED <<nasa_data, eu_data, combined_data, files>>

LoadDemoDataCall ==
    /\ nasa_data' = Some(DemoTable)
    /\ ret' = Some(DemoTable)
    /\ last' = "load_demo_data"
    /\ stdout' = {"Successfully loaded"}
    /\ UNCHANGED <<eu_data, oec_data, combined_data, files>>

\* create_unified_schema returning the table it built before, if any
CreateUnifiedSchemaCallCached ==
    /\ combined_data' = IF combined_data.some THEN combined_data
                        ELSE Some(create_unified_schema(nasa_data, eu_data))
    /\ ret' = combined_data'
    /\ last' = "create_unified_schema"
    /\ stdout' = {"Created unified dataset"}
    /\ UNCHANGED <<nasa_data, eu_data, oec_data, files>>

CreateUnifiedSchemaCall ==
    /\ combined_data' = Some(create_unified_schema(nasa_data, eu_data))
    /\ ret' = combined_data'
    /\ last' = "create_unified_schema"
    /\ stdout' = {"Created unified dataset"}
    /\ UNCHANGED <<nasa_data, eu_data, oec_data, files>>

\* enrich_data returns normally, or leaves with a KeyError
EnrichDataCall ==
    /\ combined_data' = IF HasRows(combined_data) /\ EnrichRaises(combined_data.t)
                        THEN combined_data ELSE enrich_data(combined_data)
    /\ ret' = combined_data'
    /\ last' = "enrich_data"
    /\ stdout' = IF HasRows(combined_data) THEN {"Data enrichment complete!"}
                 ELSE {"No data to enrich."}
    /\ UNCHANGED <<nasa_data, eu_data, oec_data, files>>

EnrichDataError ==
    IF HasRows(combined_data) /\ EnrichRaises(combined_data.t) THEN "KeyError" ELSE "none"

\* a save of the table as create_unified_schema built it, the derived
\* columns left out
SaveDataCallUnenriched(filename) ==
    /\ files' = save_data(files, Some(create_unified_schema(nasa_data, eu_data)), filename)
    /\ ret' = None
    /\ last' = "save_data"
    /\ stdout' = IF combined_data.some THEN {"Data saved"} ELSE {"No data to save."}
    /\ UNCHANGED <<nasa_data, eu_data, oec_data, combined_data>>

SaveDataCall(filename) ==
    /\ files' = save_data(files, combined_data, filename)
    /\ ret' = None
    /\ last' = "save_data"
    /\ stdout' = IF combined_data.some THEN {"Data saved"} ELSE {"No data to save."}
    /\ UNCHANGED <<nasa_data, eu_data, oec_data, combined_data>>

GetStatisticsCall ==
    /\ ret' = None
    /\ last' = "get_statistics"
    /\ stdout' = IF combined_data.some THEN {"EXOPLANET DATABASE STATISTICS"}
                 ELSE {"No data available."}
    /\ UNCHANGED <<nasa_data, eu_data, oec_data, combined_data, files>>

----------------------------------------------------------------------------
(* main.py *)

Flags == [collect : BOOLEAN, visualize : BOOLEAN, stats : BOOLEAN, all : BOOLEAN,
          output : OutputNames]
NoFlags(output) ==
    [collect |-> FALSE, visualize |-> FALSE, stats |-> FALSE, all |-> FALSE,
     output |-> output]

\* main without its default: the flags as they were given
DefaultedNot(a) == a

\* if not any([args.collect, args.visualize, args.stats, args.all]): args.all = True
Defaulted(a) ==
    IF ~(a.collect \/ a.visualize \/ a.stats \/ a.all) THEN [a EXCEPT !.all = TRUE]
    ELSE a

\* the chain with the test of args.stats as its last branch
StagesStatsLast(a) ==
    IF a.collect /\ a.visualize THEN <<"collect_data", "generate_visualizations">>
    ELSE IF a.all THEN <<"collect_data", "generate_visualizations">>
    ELSE IF a.collect THEN <<"collect_data">>
    ELSE IF a.visualize THEN <<"generate_visualizations">>
    ELSE IF a.stats THEN <<"show_statistics">>
    ELSE <<>>

\* the branch of main's if/elif chain that runs: the stages, in order
Stages(a) ==
    IF a.stats THEN <<"show_statistics">>
    ELSE IF a.collect /\ a.visualize THEN <<"collect_data", "generate_visualizations">>
    ELSE IF a.all THEN <<"collect_data", "generate_visualizations">>
    ELSE IF a.collect THEN <<"collect_data">>
    ELSE IF a.visualize THEN <<"generate_visualizations">>
    ELSE <<>>

\* where a stage starts: collect_data starts with its first fetch
Entry(stage) == IF stage = "collect_data" THEN "fetch_nasa" ELSE stage

\* the position after the stage that is running
AfterStage(a, stage) ==
    LET st == Stages(a)
        i == CHOOSE j \in DOMAIN st : st[j] = stage
    IN  IF i < Len(st) THEN Entry(st[i + 1]) ELSE "exit"

\* a data file left by an earlier run of the collection stage
EarlierTable == enrich_data(Some(create_unified_schema(Some(<<NasaRowB>>), None))).t

Init ==
    /\ nasa_data = None /\ eu_data = None /\ oec_data = None /\ combined_data = None
    /\ args \in Flags
    /\ files \in {<<>>, (args.output :> to_csv(EarlierTable))}
    /\ stdout = {}
    /\ pc = "main"
    /\ exc = "none"
    /\ last = "main"
    /\ ret = None
    /\ num_planets = 0 /\ radius_earth = NaN /\ planet_type = "" /\ success = FALSE

\* main, up to the call of the first stage
ParseArgs ==
    /\ pc = "main"
    /\ args' = Defaulted(args)
    /\ pc' = IF Stages(args') = <<>> THEN "exit" ELSE Entry(Stages(args')[1])
    /\ UNCHANGED <<nasa_data, eu_data, oec_data, combined_data, files, stdout,
                   exc, last, ret, pure>>

\* collect_data, Step 1
Step1FetchNasa ==
    /\ pc = "fetch_nasa"
    /\ \E o \in Outcomes(NasaTables) : FetchNasaCall(o)
    /\ pc' = "fetch_eu"
    /\ UNCHANGED <<args, exc, pure>>

\* collect_data, Step 2
Step2FetchEu ==
    /\ pc = "fetch_eu"
    /\ \E o \in Outcomes(EuTables) : FetchEuCall(o)
    /\ pc' = "create_unified_schema"
    /\ UNCHANGED <<args, exc, pure>>

\* collect_data, Step 3
Step3CreateUnifiedSchema ==
    /\ pc = "create_unified_schema"
    /\ CreateUnifiedSchemaCall
    /\ pc' = "enrich_data"
    /\ UNCHANGED <<args, exc, pure>>

\* collect_data, Step 4
Step4EnrichData ==
    /\ pc = "enrich_data"
    /\ EnrichDataCall
    /\ exc' = EnrichDataError
    /\ pc' = IF exc' = "none" THEN "save_data" ELSE "crashed"
    /\ UNCHANGED <<args, pure>>

\* collect_data, Step 5
Step5SaveData ==
    /\ pc = "save_data"
    /\ SaveDataCall(args.output)
    /\ pc' = "get_statistics"
    /\ UNCHANGED <<args, exc, pure>>

\* collect_data, Step 6, and its return to main
Step6GetStatistics ==
    /\ pc = "get_statistics"
    /\ GetStatisticsCall
    /\ pc' = AfterStage(args, "collect_data")
    /\ UNCHANGED <<args, exc, pure>>

\* generate_visualizations: only FileNotFoundError is caught
GenerateVisualizations ==
    /\ pc = "generate_visualizations"
    /\ last' = "generate_visualizations"
    /\ ret' = None
    /\ LET err == ReadCsvError(files, args.output)
       IN  IF err = "FileNotFoundError"
           THEN /\ stdout' = {"not found!"}
                /\ exc' = "none"
                /\ files' = files
           ELSE IF err # "none"
           THEN /\ stdout' = {}
                /\ exc' = err
                /\ files' = files
           ELSE LET data == read_csv(files, args.output)
                IN  /\ stdout' = {"Loaded"}
                    /\ files' = generate_all_visualizations(files, data)
                    /\ exc' = IF VisualizerRaises(data) THEN "KeyError" ELSE "none"
    /\ pc' = IF exc' = "none" THEN AfterStage(args, "generate_visualizations")
             ELSE "crashed"
    /\ UNCHANGED <<nasa_data, eu_data, oec_data, combined_data, args, pure>>

\* show_statistics: a collector of its own around the table it read
ShowStatistics ==
    /\ pc = "show_statistics"
    /\ last' = "show_statistics"
    /\ ret' = None
    /\ LET err == ReadCsvError(files, args.output)
       IN  IF err = "FileNotFoundError"
           THEN /\ stdout' = {"not found!"}
                /\ exc' = "none"
                /\ combined_data' = combined_data
           ELSE IF err # "none"
           THEN /\ stdout' = {}
                /\ exc' = err
                /\ combined_data' = combined_data
           ELSE /\ stdout' = {"EXOPLANET DATABASE STATISTICS"}
                /\ exc' = "none"
                /\ combined_data' = Some(read_csv(files, args.output))
    /\ pc' = IF exc' = "none" THEN AfterStage(args, "show_statistics") ELSE "crashed"
    /\ UNCHANGED <<nasa_data, eu_data, oec_data, files, args, pure>>

\* main's last line
Exit ==
    /\ pc = "exit"
    /\ stdout' = {"All done!"}
    /\ pc' = "done"
    /\ UNCHANGED <<nasa_data, eu_data, oec_data, combined_data, files, args,
                   exc, last, ret, pure>>

Next ==
    \/ ParseArgs
    \/ Step1FetchNasa
    \/ Step2FetchEu
    \/ Step3CreateUnifiedSchema
    \/ Step4EnrichData
    \/ Step5SaveData
    \/ Step6GetStatistics
    \/ GenerateVisualizations
    \/ ShowStatistics
    \/ Exit

Spec == Init /\ [][Next]_vars

----------------------------------------------------------------------------
(* A session with one collector, as test_system.py and the two main        *)
(* functions hold them: the slots are filled first, in any order and any   *)
(* number of times, and the table is then built, enriched, saved and       *)
(* described in any order.                                                 *)

SessionInit ==
    /\ nasa_data = None /\ eu_data = None /\ oec_data = None /\ combined_data = None
    /\ args \in {NoFlags(f) : f \in OutputNames}
    /\ files = <<>>
    /\ stdout = {}
    /\ pc = "acquire"
    /\ exc = "none"
    /\ last = "__init__"
    /\ ret = None
    /\ num_planets = 0 /\ radius_earth = NaN /\ planet_type = "" /\ success = FALSE

FetchNasa ==
    /\ pc = "acquire"
    /\ \E o \in Outcomes(NasaTables) : FetchNasaCall(o)
    /\ UNCHANGED <<args, pc, exc, pure>>

FetchEu ==
    /\ pc = "acquire"
    /\ \E o \in Outcomes(EuTables) : FetchEuCall(o)
    /\ UNCHANGED <<args, pc, exc, pure>>

FetchOec ==
    /\ pc = "acquire"
    /\ \E o \in Outcomes(OecTables) : FetchOecCall(o)
    /\ UNCHANGED <<args, pc, exc, pure>>

LoadDemoData ==
    /\ pc = "acquire"
    /\ LoadDemoDataCall
    /\ UNCHANGED <<args, pc, exc, pure>>

CreateUnifiedSchema ==
    /\ pc \in {"acquire", "process"}
    /\ CreateUnifiedSchemaCall
    /\ pc' = "process"
    /\ UNCHANGED <<args, exc, pure>>

EnrichData ==
    /\ pc \in {"acquire", "process"}
    /\ EnrichDataCall
    /\ exc' = EnrichDataError
    /\ pc' = IF exc' = "none" THEN pc ELSE "crashed"
    /\ UNCHANGED <<args, pure>>

SaveData ==
    /\ pc \in {"acquire", "process"}
    /\ SaveDataCall(args.output)
    /\ UNCHANGED <<args, pc, exc, pure>>

GetStatistics ==
    /\ pc \in {"acquire", "process"}
    /\ GetStatisticsCall
    /\ UNCHANGED <<args, pc, exc, pure>>

SessionNext ==
    \/ FetchNasa
    \/ FetchEu
    \/ FetchOec
    \/ LoadDemoData
    \/ CreateUnifiedSchema
    \/ EnrichData
    \/ SaveData
    \/ GetStatistics

SpecCollector == SessionInit /\ [][SessionNext]_vars

----------------------------------------------------------------------------
(* generate_demo_data called with each count *)

MaxPlanets == 60                \* the largest count asked of the generator

DemoInit ==
    /\ nasa_data = None /\ eu_data = None /\ oec_data = None /\ combined_data = None
    /\ args = NoFlags(DefaultOutput)
    /\ files = <<>>
    /\ stdout = {}
    /\ pc = "call"
    /\ exc = "none"
    /\ last = "__init__"
    /\ ret = None
    /\ num_planets \in 0 .. MaxPlanets
    /\ radius_earth = NaN /\ planet_type = "" /\ success = FALSE

GenerateDemoData ==
    /\ pc = "call"
    /\ ret' = Some(generate_demo_data(num_planets))
    /\ last' = "generate_demo_data"
    /\ pc' = "returned"
    /\ UNCHANGED <<nasa_data, eu_data, oec_data, combined_data, files, stdout,
                   args, exc, pure>>

DemoNext == GenerateDemoData

SpecDemo == DemoInit /\ [][DemoNext]_vars

----------------------------------------------------------------------------
(* enrich_data on tables whose numbers cover the cases of each derived     *)
(* field, and classify_planet_type on radii around its thresholds          *)

MaxEnrichCalls == 2             \* enrich_data is called this often in a row

RadiusSamples == {NaN, -1000, 0, 990, 1420, 3000, 12000}
MassSamples == {NaN, -40, 0, 160, 11300}
DistanceSamples == {NaN, 9499, 9500, 10000, 13700, 13701}
StarSamples ==
    {[st_rad |-> Unit, st_teff |-> SunTemp * Unit],
     [st_rad |-> NaN, st_teff |-> SunTemp * Unit],
     [st_rad |-> Unit, st_teff |-> NaN],
     [st_rad |-> 1540, st_teff |-> 30420000]}
SkySamples ==
    {[ra |-> 2174000, dec |-> -627000, sy_dist |-> 13000],
     [ra |-> 2174000, dec |-> -627000, sy_dist |-> NaN],
     [ra |-> NaN, dec |-> -627000, sy_dist |-> 13000],
     [ra |-> 2174000, dec |-> NaN, sy_dist |-> NaN]}

SampleRow(r, m, d, star, sky) ==
    [pl_name |-> "Sample b", hostname |-> "Sample",
     discoverymethod |-> "Transit", disc_year |-> 2020, pl_orbper |-> 3650000,
     pl_radj |-> r, pl_bmassj |-> m, pl_orbsmax |-> d,
     pl_orbeccen |-> 0, pl_eqt |-> NaN, sy_dist |-> sky.sy_dist,
     st_mass |-> Unit, st_rad |-> star.st_rad, st_teff |-> star.st_teff,
     ra |-> sky.ra, dec |-> sky.dec]

\* radii of classify_planet_type, in steps of 0.1 Earth radii
RadiusStepEarth == 1000 * 1000
MaxRadiusEarth == 80            \* 8.0 Earth radii

EnrichInit ==
    /\ eu_data = None /\ oec_data = None /\ combined_data = None
    /\ args = NoFlags(DefaultOutput)
    /\ files = <<>>
    /\ stdout = {}
    /\ exc = "none"
    /\ last = "__init__"
    /\ ret = None
    /\ num_planets = 0
    /\ planet_type = ""
    /\ success = FALSE
    /\ \/ /\ pc = "create"
          /\ radius_earth = NaN
          /\ \E r \in RadiusSamples, m \in MassSamples, d \in DistanceSamples,
                star \in StarSamples, sky \in SkySamples :
                nasa_data = Some(<<SampleRow(r, m, d, star, sky), NasaRowB>>)
       \/ /\ pc = "classify"
          /\ nasa_data = None
          /\ \/ radius_earth = NaN
             \/ \E k \in 0 .. MaxRadiusEarth : radius_earth = k * RadiusStepEarth

EnrichCreate ==
    /\ pc = "create"
    /\ CreateUnifiedSchemaCall
    /\ pc' = "enrich"
    /\ num_planets' = 0
    /\ UNCHANGED <<args, exc, radius_earth, planet_type, success>>

\* num_planets counts the calls of enrich_data here
EnrichAgain ==
    /\ pc = "enrich"
    /\ num_planets < MaxEnrichCalls
    /\ EnrichDataCall
    /\ exc' = EnrichDataError
    /\ num_planets' = num_planets + 1
    /\ UNCHANGED <<args, pc, radius_earth, planet_type, success>>

Classify ==
    /\ pc = "classify"
    /\ planet_type' = classify_planet_type(radius_earth)
    /\ last' = "classify_planet_type"
    /\ pc' = "classified"
    /\ UNCHANGED <<nasa_data, eu_data, oec_data, combined_data, files, stdout,
                   args, exc, ret, num_planets, radius_earth, success>>

EnrichNext ==
    \/ EnrichCreate
    \/ EnrichAgain
    \/ Classify

SpecEnrich == EnrichInit /\ [][EnrichNext]_vars

----------------------------------------------------------------------------
(* main of exoplanet_data_sources.py: the two fetches, the demo data when  *)
(* neither gave rows, and then the table built, enriched, described and    *)
(* saved under the default name                                            *)

\* a result that is there and is all it takes to count as one
NotNoneResult(result) == result.some

\* nasa_result is not None and len(nasa_result) > 0, and likewise
NonEmptyResult(result) == result.some /\ Len(result.t) > 0

untouched == <<args, exc, num_planets, radius_earth, planet_type>>

SourcesInit ==
    /\ nasa_data = None /\ eu_data = None /\ oec_data = None /\ combined_data = None
    /\ args = NoFlags(DefaultOutput)
    /\ files = <<>>
    /\ stdout = {}
    /\ pc = "try_nasa"
    /\ exc = "none"
    /\ last = "__init__"
    /\ ret = None
    /\ num_planets = 0 /\ radius_earth = NaN /\ planet_type = "" /\ success = FALSE

TryNasa ==
    /\ pc = "try_nasa"
    /\ \E o \in Outcomes(NasaTables) : FetchNasaCall(o)
    /\ success' = (success \/ NonEmptyResult(ret'))
    /\ pc' = "try_eu"
    /\ UNCHANGED untouched

TryEu ==
    /\ pc = "try_eu"
    /\ \E o \in Outcomes(EuTables) : FetchEuCall(o)
    /\ success' = (success \/ NonEmptyResult(ret'))
    /\ pc' = "fallback"
    /\ UNCHANGED untouched

\* if not success: collector.load_demo_data()
Fallback ==
    /\ pc = "fallback"
    /\ IF ~success THEN LoadDemoDataCall
       ELSE UNCHANGED <<nasa_data, eu_data, oec_data, combined_data, files,
                        stdout, last, ret>>
    /\ pc' = "create_unified_schema"
    /\ UNCHANGED <<untouched, success>>

SourcesCreate ==
    /\ pc = "create_unified_schema"
    /\ CreateUnifiedSchemaCall
    /\ pc' = "enrich_data"
    /\ UNCHANGED <<untouched, success>>

SourcesEnrich ==
    /\ pc = "enrich_data"
    /\ EnrichDataCall
    /\ exc' = EnrichDataError
    /\ pc' = IF exc' = "none" THEN "get_statistics" ELSE "crashed"
    /\ UNCHANGED <<args, pure>>

SourcesStatistics ==
    /\ pc = "get_statistics"
    /\ GetStatisticsCall
    /\ pc' = "save_data"
    /\ UNCHANGED <<untouched, success>>

SourcesSave ==
    /\ pc = "save_data"
    /\ SaveDataCall(DefaultOutput)
    /\ pc' = "returned"
    /\ UNCHANGED <<untouched, success>>

SourcesNext ==
    \/ TryNasa
    \/ TryEu
    \/ Fallback
    \/ SourcesCreate
    \/ SourcesEnrich
    \/ SourcesStatistics
    \/ SourcesSave

SpecSources == SourcesInit /\ [][SourcesNext]_vars

----------------------------------------------------------------------------
(* Properties of unification, of the fetches and of the command line *)

UnifiedNames == [i \in DOMAIN combined_data.t |-> combined_data.t[i].planet_name]
RowsNamed(name) == {i \in DOMAIN combined_data.t : PyEq(UnifiedNames[i], name)}
JustUnified == last = "create_unified_schema" /\ combined_data.some

\* C1: after create_unified_schema, whatever the NASA and the EU slot hold
\* (tables with repeated names included), no two rows of the unified table
\* have the same planet_name.
C1_UniquePlanetNames ==
    JustUnified =>
        \A i, j \in DOMAIN combined_data.t :
            i # j => ~PyEq(UnifiedNames[i], UnifiedNames[j])

\* the names the two slots offer
NasaNames == {NasaPart(nasa_data)[i].planet_name : i \in DOMAIN NasaPart(nasa_data)}
EuNames ==
    IF HasRows(eu_data) THEN {EuPlanetName(eu_data.t[i]) : i \in DOMAIN eu_data.t}
    ELSE {}

\* C2: a name that occurs in both the NASA and the EU table has exactly one
\* row in the unified table, and that row is the NASA row, field by field;
\* nothing of the EU row fills in what the NASA row lacks.
C2_SharedNameOneNasaRow ==
    JustUnified =>
        \A name \in NasaNames \cap EuNames :
            /\ Cardinality(RowsNamed(name)) = 1
            /\ \A i \in RowsNamed(name) :
                  \E k \in DOMAIN NasaPart(nasa_data) :
                      \A c \in DOMAIN NasaPart(nasa_data)[k] :
                          combined_data.t[i][c] = NasaPart(nasa_data)[k][c]

\* the run of main.py that goes through collect_data and then
\* generate_visualizations
FullPipeline == Stages(Defaulted(args)) = <<"collect_data", "generate_visualizations">>
EveryFetchFailed == nasa_data = None /\ eu_data = None
Saved == pc \in {"get_statistics", "generate_visualizations", "exit", "done", "crashed"}

\* C3: when the full pipeline of main.py runs and every fetch fails, the
\* table it produces and saves has 100 rows, each tagged 'Demo Data', with
\* planet_type and in_habitable_zone populated in every row.
C3_FallbackTableWhenAllFetchesFail ==
    (FullPipeline /\ Saved /\ EveryFetchFailed) =>
        /\ combined_data.some
        /\ Len(combined_data.t) = DemoCount
        /\ \A i \in DOMAIN combined_data.t :
              /\ combined_data.t[i].data_source = DemoSource
              /\ {"planet_type", "in_habitable_zone"} \subseteq DOMAIN combined_data.t[i]
        /\ args.output \in DOMAIN files
        /\ Len(files[args.output].body) = DemoCount

\* C4: main.py with no flags, with --all or with --collect --visualize ends
\* normally, without an uncaught exception, for every combination of fetch
\* outcomes, the one where both fetches fail included.
C4_FullPipelineEndsNormally ==
    (FullPipeline /\ ~args.stats /\ args.output = DefaultOutput) =>
        (pc # "crashed" /\ exc = "none")

FetchOps == {"fetch_nasa_exoplanet_archive", "fetch_eu_exoplanet_catalogue",
             "fetch_open_exoplanet_catalogue"}
slots == <<nasa_data, eu_data, oec_data, combined_data>>

\* C5: a fetch that fails, for whatever reason, returns None without
\* raising and leaves nasa_data, eu_data, oec_data and combined_data as they
\* were; the fetches after it can still be made, and a fetch that succeeds
\* stores the table it returns in its own slot.
C5_FailedFetchIsIsolated ==
    /\ [][(last' \in FetchOps /\ pc = "acquire") =>
             IF ret' = None
             THEN UNCHANGED slots /\ exc' = "none" /\ pc' = "acquire"
             ELSE /\ last' = "fetch_nasa_exoplanet_archive" =>
                        nasa_data' = ret' /\ UNCHANGED <<eu_data, oec_data, combined_data>>
                  /\ last' = "fetch_eu_exoplanet_catalogue" =>
                        eu_data' = ret' /\ UNCHANGED <<nasa_data, oec_data, combined_data>>
                  /\ last' = "fetch_open_exoplanet_catalogue" =>
                        oec_data' = ret' /\ UNCHANGED <<nasa_data, eu_data, combined_data>>]_vars
    /\ []((last \in FetchOps /\ ret = None /\ pc = "acquire") =>
             ENABLED FetchNasa /\ ENABLED FetchEu /\ ENABLED FetchOec)

\* a fetch has just failed while the NASA and the EU slot held tables
C5_FailedFetchAfterSuccess ==
    /\ last = "fetch_eu_exoplanet_catalogue" /\ ret = None
    /\ HasRows(nasa_data) /\ HasRows(eu_data) /\ oec_data.some

\* C6: for every n >= 0, below the number of built-in planets too,
\* generate_demo_data(n) returns exactly n rows, each with a
\* planet_radius_jupiter that is not missing.
C6_DemoRowCount ==
    pc = "returned" =>
        /\ Len(ret.t) = num_planets
        /\ \A i \in DOMAIN ret.t : ~IsNa(ret.t[i].planet_radius_jupiter)

----------------------------------------------------------------------------
(* Properties of enrich_data *)

Enriched == last = "enrich_data" /\ HasRows(combined_data) /\ exc = "none"

\* C7: enrich_data is idempotent: a second call right after the first
\* leaves every derived field of every row, the other fields and the set of
\* rows as the first call left them.
C7_EnrichIdempotent ==
    [][(last = "enrich_data" /\ last' = "enrich_data" /\ exc = "none")
          => (combined_data' = combined_data /\ exc' = "none")]_vars

DerivedColumns ==
    {"planet_radius_earth", "planet_mass_earth", "density_g_cm3", "planet_type",
     "hz_inner_au", "hz_outer_au", "in_habitable_zone", "x_pc", "y_pc", "z_pc"}

\* enrich_data has run twice on a table that has every derived column and
\* a row in the habitable zone
C7_EnrichedTwice ==
    /\ Enriched /\ pc = "enrich" /\ num_planets = 2
    /\ DerivedColumns \subseteq Columns(combined_data.t)
    /\ combined_data.t[1].in_habitable_zone = TRUE
    /\ ~IsNa(combined_data.t[1].density_g_cm3)

\* the label of a radius, in units of 1e-7 Earth radii, with the name given
\* to the smallest class
Band(r, rocky) ==
    IF r = NaN THEN "Unknown"
    ELSE IF r < 15000000 THEN rocky
    ELSE IF r < 20000000 THEN "Super-Earth"
    ELSE IF r < 60000000 THEN "Neptune-like"
    ELSE "Jupiter-like"

BandsHold(rocky) ==
    /\ Enriched =>
          \A i \in DOMAIN combined_data.t :
              /\ combined_data.t[i].planet_type
                    \in {rocky, "Super-Earth", "Neptune-like", "Jupiter-like", "Unknown"}
              /\ combined_data.t[i].planet_type
                    = Band(combined_data.t[i].planet_radius_earth, rocky)
    /\ pc = "classified" =>
          /\ planet_type = Band(radius_earth, rocky)
          /\ radius_earth = 15000000 => planet_type = "Super-Earth"
          /\ radius_earth = 20000000 => planet_type = "Neptune-like"
          /\ radius_earth = 60000000 => planet_type = "Jupiter-like"

\* C8, as the code has it: after enrich_data every row's planet_type is one
\* of Rocky (Earth-like), Super-Earth, Neptune-like, Jupiter-like, Unknown,
\* chosen from planet_radius_earth r by: missing -> Unknown; r < 1.5 ->
\* Rocky (Earth-like); 1.5 <= r < 2.0 -> Super-Earth; 2.0 <= r < 6.0 ->
\* Neptune-like; r >= 6.0 -> Jupiter-like; r = 1.5 gives Super-Earth, r = 2.0
\* Neptune-like and r = 6.0 Jupiter-like.
C8_PlanetTypeBands == BandsHold("Rocky (Earth-like)")

\* C8, as stated: the same bands with the smallest class labelled Rocky.
C8_PlanetTypeBandsAsStated == BandsHold("Rocky")

\* a radius on the first threshold has been classified
C8_OnThreshold ==
    pc = "classified" /\ radius_earth = 15000000 /\ planet_type = "Super-Earth"

\* C9: after enrich_data, planet_radius_earth is planet_radius_jupiter x
\* 11.209 and planet_mass_earth is planet_mass_jupiter x 317.8 wherever the
\* input is there, and missing (not zero) wherever the input is missing.
C9_EarthUnits ==
    Enriched =>
        \A i \in DOMAIN combined_data.t :
            LET row == combined_data.t[i]
            IN  /\ IF row.planet_radius_jupiter = NaN
                   THEN row.planet_radius_earth = NaN
                   ELSE row.planet_radius_earth = row.planet_radius_jupiter * 11209
                /\ IF row.planet_mass_jupiter = NaN
                   THEN row.planet_mass_earth = NaN
                   ELSE row.planet_mass_earth = row.planet_mass_jupiter * 3178

\* a row with a mass and no radius next to a row with both
C9_PresentAndMissing ==
    /\ Enriched /\ Len(combined_data.t) = 2
    /\ combined_data.t[1].planet_radius_jupiter = NaN
    /\ combined_data.t[1].planet_mass_jupiter = 160
    /\ combined_data.t[1].planet_mass_earth = 508480
    /\ combined_data.t[2].planet_radius_earth = 11400 * 11209

\* C10: after enrich_data, in_habitable_zone is true exactly when
\* orbital_distance_au, hz_inner_au and hz_outer_au are all there and
\* hz_inner_au <= orbital_distance_au <= hz_outer_au, both ends included;
\* with any of the three missing it is never true.
C10_InHabitableZone ==
    Enriched =>
        \A i \in DOMAIN combined_data.t :
            LET row == combined_data.t[i]
            IN  (row.in_habitable_zone = TRUE) <=>
                   /\ row.orbital_distance_au # NaN
                   /\ row.hz_inner_au # NaN
                   /\ row.hz_outer_au # NaN
                   /\ row.hz_inner_au <= row.orbital_distance_au
                   /\ row.orbital_distance_au <= row.hz_outer_au

\* a planet exactly on the inner edge of the zone of a Sun-like star
C10_OnInnerEdge ==
    /\ Enriched
    /\ combined_data.t[1].hz_inner_au = 9500
    /\ combined_data.t[1].orbital_distance_au = 9500
    /\ combined_data.t[1].in_habitable_zone = TRUE

----------------------------------------------------------------------------
(* Properties of enrichment with missing inputs *)

AfterEnrich == last = "enrich_data" /\ HasRows(combined_data)

\* C11: enrich_data never raises because of missing data: on every
\* non-empty unified table, whatever nullable fields are missing in a row,
\* it completes normally, and each derived field depends on its own inputs
\* alone: it is missing (Unknown for planet_type) exactly when an input of
\* its own is, whatever else the row lacks.
C11_EnrichIsolatesMissingInputs ==
    AfterEnrich =>
        /\ exc = "none"
        /\ pc # "crashed"
        /\ DerivedColumns \subseteq Columns(combined_data.t)
        /\ \A i \in DOMAIN combined_data.t :
              LET row == combined_data.t[i]
                  no_radius == row.planet_radius_jupiter = NaN
                  no_mass == row.planet_mass_jupiter = NaN
                  no_star == row.stellar_radius_solar = NaN \/ row.stellar_temp_k = NaN
                  no_sky == row.ra_deg = NaN \/ row.dec_deg = NaN
              IN  /\ (row.planet_radius_earth = NaN) <=> no_radius
                  /\ (row.planet_type = "Unknown") <=> no_radius
                  /\ (row.planet_mass_earth = NaN) <=> no_mass
                  /\ (row.density_g_cm3 # NaN) <=>
                        /\ ~no_radius /\ ~no_mass
                        /\ row.planet_radius_jupiter > 0 /\ row.planet_mass_jupiter > 0
                  /\ (row.hz_inner_au = NaN) <=> no_star
                  /\ (row.hz_outer_au = NaN) <=> no_star
                  /\ (row.x_pc = NaN) <=> no_sky
                  /\ (row.y_pc = NaN) <=> no_sky
                  /\ (row.z_pc = NaN) <=> (row.dec_deg = NaN)
                  /\ row.in_habitable_zone \in BOOLEAN

\* a row without mass, stellar radius and distance whose radius, type and
\* position are there all the same
C11_PartlyMissingRow ==
    /\ AfterEnrich
    /\ combined_data.t[1].planet_mass_earth = NaN
    /\ combined_data.t[1].hz_inner_au = NaN
    /\ combined_data.t[1].stellar_distance_pc = NaN
    /\ combined_data.t[1].planet_radius_earth # NaN
    /\ combined_data.t[1].planet_type = "Neptune-like"
    /\ combined_data.t[1].x_pc # NaN
    /\ combined_data.t[1].in_habitable_zone = FALSE

----------------------------------------------------------------------------
(* Properties of the mapping *)

\* the native column each canonical field is read from
NasaNative ==
    [planet_name |-> "pl_name", host_star |-> "hostname",
     discovery_method |-> "discoverymethod", discovery_year |-> "disc_year",
     orbital_period_days |-> "pl_orbper", planet_radius_jupiter |-> "pl_radj",
     planet_mass_jupiter |-> "pl_bmassj", orbital_distance_au |-> "pl_orbsmax",
     eccentricity |-> "pl_orbeccen", equilibrium_temp_k |-> "pl_eqt",
     stellar_distance_pc |-> "sy_dist", stellar_mass_solar |-> "st_mass",
     stellar_radius_solar |-> "st_rad", stellar_temp_k |-> "st_teff",
     ra_deg |-> "ra", dec_deg |-> "dec"]
EuNative ==
    [planet_name |-> "name", host_star |-> "star_name",
     discovery_method |-> "detection_type", discovery_year |-> "discovered",
     orbital_period_days |-> "orbital_period", planet_radius_jupiter |-> "radius",
     planet_mass_jupiter |-> "mass", orbital_distance_au |-> "semi_major_axis",
     eccentricity |-> "eccentricity", equilibrium_temp_k |-> "temp_calculated",
     stellar_distance_pc |-> "star_distance", stellar_mass_solar |-> "star_mass",
     stellar_radius_solar |-> "star_radius", stellar_temp_k |-> "star_teff",
     ra_deg |-> "ra", dec_deg |-> "dec"]

IsMissingIn(row, field) ==
    IF field \in {"planet_name", "host_star", "discovery_method"}
    THEN row[field] = "<NaN>" ELSE row[field] = NaN

NasaIsMapped == HasRows(nasa_data) /\ "data_source" \notin Columns(nasa_data.t)

\* C12: in create_unified_schema, for the NASA and the EU mapping and every
\* canonical field, planet_name, host_star and discovery_method included, a
\* field whose native column the source table lacks is missing in the
\* unified row, never zero or another stand-in value.
C12_AbsentColumnIsMissing ==
    JustUnified =>
        /\ NasaIsMapped =>
              \A i \in DOMAIN nasa_data.t : \A f \in DOMAIN NasaNative :
                  NasaNative[f] \notin Columns(nasa_data.t)
                      => IsMissingIn(combined_data.t[i], f)
        /\ HasRows(eu_data) =>
              \A i \in DOMAIN combined_data.t : \A f \in DOMAIN EuNative :
                  (/\ combined_data.t[i].data_source = "EU Exoplanet Catalogue"
                   /\ EuNative[f] \notin Columns(eu_data.t)
                   /\ f = "planet_name" => "# name" \notin Columns(eu_data.t))
                      => IsMissingIn(combined_data.t[i], f)

----------------------------------------------------------------------------
(* Properties of the files *)

JustSaved == last = "save_data" /\ combined_data.some

\* the names that differ from the given one in the last piece, the
\* extension, only
SameBase(a, b) ==
    /\ Len(a) = Len(b) /\ a # b
    /\ \A i \in 1 .. (Len(a) - 1) : a[i] = b[i]

\* C13: for every file name given to save_data with a unified table that
\* is not None, save_data writes two distinct files from the same table:
\* the delimited text at the given name and the JSON at a name that
\* differs from it in the extension only; after the call the file at the
\* given name still holds the delimited text.
C13_TwoFilesSaved ==
    JustSaved =>
        /\ args.output \in DOMAIN files
        /\ files[args.output].kind = "csv"
        /\ Len(files[args.output].body) = Len(combined_data.t)
        /\ \E n \in DOMAIN files :
              /\ SameBase(args.output, n)
              /\ files[n].kind = "json"
              /\ files[n].body = combined_data.t

ReadingStage == pc \in {"generate_visualizations", "show_statistics"}

\* C14: when the data file does not exist, generate_visualizations and
\* show_statistics each report the missing file and return without raising,
\* draw no chart, print no statistics and create or change no file; main
\* then ends normally.
C14_MissingFileIsReported ==
    /\ [][(ReadingStage /\ args.output \notin DOMAIN files) =>
             /\ stdout' = {"not found!"}
             /\ exc' = "none"
             /\ files' = files
             /\ combined_data' = combined_data
             /\ pc' = "exit"]_vars
    /\ [][pc = "exit" => (pc' = "done" /\ exc' = "none" /\ files' = files)]_vars
    /\ [](pc = "exit" => ENABLED Exit)

\* the visualization stage has just found no file to read
C14_NothingToVisualize ==
    /\ last = "generate_visualizations" /\ pc = "exit"
    /\ stdout = {"not found!"} /\ files = <<>> /\ exc = "none"

----------------------------------------------------------------------------
(* Properties of the command line *)

CollectionOps ==
    {"fetch_nasa_exoplanet_archive", "fetch_eu_exoplanet_catalogue",
     "create_unified_schema", "enrich_data", "save_data", "get_statistics"}
OnlyCollect == args.collect /\ ~args.visualize /\ ~args.stats /\ ~args.all
OnlyVisualize == args.visualize /\ ~args.collect /\ ~args.stats /\ ~args.all
OnlyStats == args.stats /\ ~args.collect /\ ~args.visualize /\ ~args.all
OnlyAll == args.all /\ ~args.collect /\ ~args.visualize /\ ~args.stats
NoFlag == ~args.collect /\ ~args.visualize /\ ~args.stats /\ ~args.all

\* C15: the flags select the stages: --collect alone runs collection and
\* no visualization, --visualize alone visualization and no collection,
\* --stats alone the statistics display only, and no flag at all runs what
\* --all runs, collection and then visualization; in each case the file
\* named by --output is the one collection writes and the one
\* visualization and statistics read.
C15_FlagsSelectStages ==
    /\ [][/\ OnlyCollect =>
                /\ last' \notin {"generate_visualizations", "show_statistics"}
                /\ pc = "main" => pc' = "fetch_nasa"
                /\ pc' = "done" => last' = "get_statistics"
          /\ OnlyVisualize =>
                /\ last' \notin CollectionOps \cup {"show_statistics"}
                /\ pc = "main" => pc' = "generate_visualizations"
                /\ pc' = "done" => last' = "generate_visualizations"
          /\ OnlyStats =>
                /\ last' \notin CollectionOps \cup {"generate_visualizations"}
                /\ pc = "main" => pc' = "show_statistics"
                /\ pc' = "done" => last' = "show_statistics"
          /\ OnlyAll =>
                /\ last' # "show_statistics"
                /\ pc = "main" => pc' = "fetch_nasa"
                /\ pc' = "generate_visualizations" => last' = "get_statistics"
                /\ pc' = "done" => last' = "generate_visualizations"
          /\ (NoFlag /\ pc = "main") =>
                /\ args' = [args EXCEPT !.all = TRUE]
                /\ pc' = "fetch_nasa"
                /\ UNCHANGED <<nasa_data, eu_data, oec_data, combined_data, files,
                               stdout, exc, last, ret>>
          /\ pc = "save_data" => args.output \in DOMAIN files'
          /\ ReadingStage =>
                /\ (stdout' = {"not found!"}) <=> (args.output \notin DOMAIN files)
                /\ (stdout' = {"not found!"}) \/ exc' # "none"
                      \/ stdout' \in {{"Loaded"}, {"EXOPLANET DATABASE STATISTICS"}}]_vars

\* a run without a flag that collected and then drew the charts
C15_RunWithoutFlag ==
    /\ pc = "done" /\ OnlyAll /\ last = "generate_visualizations"
    /\ HasRows(combined_data)
    /\ args.output \in DOMAIN files
    /\ <<"exoplanet_dashboard", ".html">> \in DOMAIN files

\* C16: saving the unified table with save_data and reloading the
\* delimited-text file, as generate_visualizations and show_statistics do,
\* gives a table with the same number of rows and, row by row, the same
\* planet_name wherever the planet_name was not missing before saving.
C16_CsvRoundTrip ==
    JustSaved =>
        /\ ReadCsvError(files, args.output) = "none"
        /\ LET reloaded == read_csv(files, args.output)
           IN  /\ Len(reloaded) = Len(combined_data.t)
               /\ \A i \in DOMAIN combined_data.t :
                     combined_data.t[i].planet_name # "<NaN>"
                        => reloaded[i].planet_name = combined_data.t[i].planet_name

----------------------------------------------------------------------------
(* Properties of main of exoplanet_data_sources.py *)

GaveRows(slot) == slot # [some |-> FALSE, t |-> <<>>] /\ Len(slot.t) > 0
DemoWasLoaded == pc \notin {"try_nasa", "try_eu", "fallback"} /\ ~success

\* C17: in main of exoplanet_data_sources.py, load_demo_data is called if
\* and only if neither the NASA fetch nor the EU fetch returned a table
\* with rows; when it is called the unified table built afterwards is
\* exactly the 100 fallback rows, and when it is not called the unified
\* table holds no fallback row.
C17_DemoDataIffNoRows ==
    /\ [][pc = "fallback" =>
             ((last' = "load_demo_data") <=> ~(GaveRows(nasa_data) \/ GaveRows(eu_data)))]_vars
    /\ [][pc' = "fallback" => (success' <=> (GaveRows(nasa_data') \/ GaveRows(eu_data')))]_vars
    /\ [](last = "create_unified_schema" =>
             IF DemoWasLoaded
             THEN /\ Len(combined_data.t) = 100
                  /\ \A i \in DOMAIN combined_data.t :
                        combined_data.t[i].data_source = "Demo Data"
                  /\ combined_data.t[1].planet_name = "Proxima Centauri b"
             ELSE /\ Len(combined_data.t) > 0
                  /\ \A i \in DOMAIN combined_data.t :
                        combined_data.t[i].data_source # "Demo Data")

\* the demo data unified after a NASA failure and an EU answer without rows
C17_DemoAfterEmptyAnswer ==
    /\ last = "create_unified_schema" /\ DemoWasLoaded
    /\ eu_data = [some |-> TRUE, t |-> <<>>]
    /\ Len(combined_data.t) = 100

----------------------------------------------------------------------------
(* Properties of collect_data *)

\* the operation that may come right after each operation of a run
ComesAfter ==
    {<<"main", "fetch_nasa_exoplanet_archive">>,
     <<"fetch_nasa_exoplanet_archive", "fetch_eu_exoplanet_catalogue">>,
     <<"fetch_eu_exoplanet_catalogue", "create_unified_schema">>,
     <<"create_unified_schema", "enrich_data">>,
     <<"enrich_data", "save_data">>,
     <<"save_data", "get_statistics">>,
     <<"get_statistics", "generate_visualizations">>,
     <<"main", "generate_visualizations">>,
     <<"main", "show_statistics">>}

\* C18: in collect_data the steps run in one fixed order whatever the
\* fetches meet: NASA fetch, EU fetch, create_unified_schema, enrich_data,
\* save_data; each fetch is issued exactly once, a failed one is not
\* retried, no step runs again after a later one has started, and the
\* table saved is the table as enrichment left it.
C18_CollectStepsInOrder ==
    /\ [][/\ last' # last => <<last, last'>> \in ComesAfter
          /\ last' = last =>
                /\ pc \in {"main", "exit"}
                /\ UNCHANGED <<nasa_data, eu_data, oec_data, combined_data, files, ret>>
          /\ last' = "save_data" =>
                /\ ret = combined_data
                /\ \E n \in DOMAIN files' :
                      files'[n].kind = "json" /\ files'[n].body = ret.t]_vars
    /\ [](last = "fetch_eu_exoplanet_catalogue" => pc = "create_unified_schema")
    /\ [](last = "save_data" => pc = "get_statistics")

\* an enriched table saved after the NASA fetch failed
C18_SavedAfterFailedFetch ==
    /\ last = "save_data" /\ nasa_data = None /\ HasRows(eu_data)
    /\ \E n \in DOMAIN files :
          /\ files[n].kind = "json" /\ Len(files[n].body) = 2
          /\ "planet_type" \in DOMAIN files[n].body[1]

----------------------------------------------------------------------------
(* Properties of the rows of the unified table *)

RowsOf(slot) == IF slot # [some |-> FALSE, t |-> <<>>] THEN slot.t ELSE <<>>

\* the unified row carries what the row of the NASA slot holds: a row of a
\* table in the canonical schema as it is, any other row column by column
FromNasaRow(urow, row) ==
    IF "data_source" \in DOMAIN row
    THEN \A c \in DOMAIN row : urow[c] = row[c]
    ELSE /\ urow.data_source = "NASA Exoplanet Archive"
         /\ \A f \in DOMAIN NasaNative :
               NasaNative[f] \in DOMAIN row => urow[f] = row[NasaNative[f]]

FromEuRow(urow, row) ==
    /\ urow.data_source = "EU Exoplanet Catalogue"
    /\ \A f \in DOMAIN EuNative :
          EuNative[f] \in DOMAIN row => urow[f] = row[EuNative[f]]
    /\ ("name" \notin DOMAIN row /\ "# name" \in DOMAIN row)
          => urow.planet_name = row["# name"]

\* C19: every row of the unified table comes from exactly one input row of
\* its own, none is invented and no input row gives two; the rows of the
\* NASA slot come first and the rows of the EU slot after them, each
\* source in its own order; so the unified table has at most as many rows
\* as the NASA and the EU table together.
C19_RowsComeFromInputRows ==
    JustUnified =>
        LET nasa == RowsOf(nasa_data)
            eu == RowsOf(eu_data)
            unified == combined_data.t
            kept == Len(unified) - Len(nasa)
        IN  /\ Len(unified) >= Len(nasa)
            /\ Len(unified) <= Len(nasa) + Len(eu)
            /\ \A i \in DOMAIN nasa : FromNasaRow(unified[i], nasa[i])
            /\ \E from \in [1 .. kept -> DOMAIN eu] :
                  /\ \A j, k \in 1 .. kept : j < k => from[j] < from[k]
                  /\ \A k \in 1 .. kept :
                        FromEuRow(unified[Len(nasa) + k], eu[from[k]])

\* two NASA rows, then the one EU row of two whose name was new
C19_NasaThenEu ==
    /\ JustUnified
    /\ Len(nasa_data.t) = 2 /\ Len(eu_data.t) = 2 /\ Len(combined_data.t) = 3
    /\ eu_data.t = <<EuRowA, EuRowB>>
    /\ combined_data.t[3].planet_name = "GJ 1214 b"

\* C20: after create_unified_schema every row carries the tag of the source
\* it came from: the rows of the NASA slot 'NASA Exoplanet Archive' when
\* they were mapped, and their own tag 'Demo Data' when the slot holds the
\* fallback table; the rows after them, from the EU slot, 'EU Exoplanet
\* Catalogue'.  No row lacks the tag or carries the tag of another source.
C20_RowsTaggedWithTheirSource ==
    JustUnified =>
        LET nasa == RowsOf(nasa_data)
            fallback == nasa = DemoTable
            unified == combined_data.t
        IN  \A i \in DOMAIN unified :
               /\ "data_source" \in DOMAIN unified[i]
               /\ unified[i].data_source =
                     IF i > Len(nasa) THEN "EU Exoplanet Catalogue"
                     ELSE IF fallback THEN "Demo Data"
                     ELSE "NASA Exoplanet Archive"

\* mapped NASA rows, then EU rows whose name column is headed "# name"
C20_BothTags ==
    /\ JustUnified
    /\ Len(nasa_data.t) = 2 /\ eu_data.t = EuHashName
    /\ Len(combined_data.t) = 3
    /\ combined_data.t[2].data_source = "NASA Exoplanet Archive"
    /\ combined_data.t[3].data_source = "EU Exoplanet Catalogue"
    /\ combined_data.t[3].planet_name = "GJ 1214 b"

----------------------------------------------------------------------------
(* Properties of the fallback table *)

FallbackInNasaSlot == last = "create_unified_schema" /\ RowsOf(nasa_data) = DemoTable

----------------------------------------------------------------------------
(* Properties of the density and of the position *)

\* C22: after enrich_data, density_g_cm3 of a row is there if and only if
\* planet_mass_jupiter and planet_radius_jupiter are both there and both
\* strictly greater than zero; a row whose mass or radius is missing, zero
\* or negative has no density.
C22_DensityNeedsPositiveInputs ==
    AfterEnrich =>
        \A i \in DOMAIN combined_data.t :
           LET row == combined_data.t[i]
               unusable(v) == v = NaN \/ v = 0 \/ v < 0
           IN  /\ (unusable(row.planet_mass_jupiter)
                      \/ unusable(row.planet_radius_jupiter))
                     => row.density_g_cm3 = NaN
               /\ row.density_g_cm3 = NaN
                     => (unusable(row.planet_mass_jupiter)
                            \/ unusable(row.planet_radius_jupiter))

\* a row with a mass above zero and a radius of zero, and a row with both
\* above zero
C22_ZeroRadius ==
    /\ AfterEnrich
    /\ combined_data.t[1].planet_mass_jupiter > 0
    /\ combined_data.t[1].planet_radius_jupiter = 0
    /\ combined_data.t[1].density_g_cm3 = NaN
    /\ combined_data.t[2].density_g_cm3 > 0

Present(v) == v # NaN

\* C23, as amended: after enrich_data the distance used for the position of
\* a row is stellar_distance_pc when it is there and 100 parsecs when it is
\* missing; x_pc and y_pc are there if and only if ra_deg and dec_deg both
\* are, and z_pc if and only if dec_deg is, whether or not
\* stellar_distance_pc is there; the stored stellar_distance_pc is left as
\* it was (still missing).
C23_PositionWithDefaultDistance ==
    [][(last' = "enrich_data" /\ HasRows(combined_data')) =>
          \A i \in DOMAIN combined_data'.t :
             LET row == combined_data'.t[i]
                 used == IF Present(row.stellar_distance_pc)
                         THEN row.stellar_distance_pc ELSE 100 * Unit
             IN  /\ Present(row.x_pc) <=> (Present(row.ra_deg) /\ Present(row.dec_deg))
                 /\ Present(row.y_pc) <=> (Present(row.ra_deg) /\ Present(row.dec_deg))
                 /\ Present(row.z_pc) <=> Present(row.dec_deg)
                 /\ row.z_pc = FMul(used, Sin(Radians(row.dec_deg)))
                 /\ row.stellar_distance_pc = combined_data.t[i].stellar_distance_pc]_vars

\* C23 as stated: each of x_pc, y_pc and z_pc is there if and only if
\* ra_deg and dec_deg both are
C23_PositionAsStated ==
    AfterEnrich =>
        \A i \in DOMAIN combined_data.t :
           \A c \in {"x_pc", "y_pc", "z_pc"} :
              Present(combined_data.t[i][c])
                 <=> (Present(combined_data.t[i].ra_deg)
                         /\ Present(combined_data.t[i].dec_deg))

\* a row without a distance whose position was computed at 100 parsecs
C23_PositionWithoutDistance ==
    /\ AfterEnrich
    /\ combined_data.t[1].stellar_distance_pc = NaN
    /\ Present(combined_data.t[1].ra_deg) /\ Present(combined_data.t[1].dec_deg)
    /\ Present(combined_data.t[1].x_pc) /\ Present(combined_data.t[1].y_pc)
    /\ combined_data.t[1].z_pc < -80 * Unit

----------------------------------------------------------------------------
(* Properties of the names of the unified table *)

\* the name a row of the NASA slot is collected under
ResolvedNasaName(row) ==
    IF "data_source" \in DOMAIN row THEN row.planet_name
    ELSE IF "pl_name" \in DOMAIN row THEN row.pl_name ELSE ""

\* the name a row of the EU slot is collected under
ResolvedEuName(row) ==
    IF "name" \in DOMAIN row THEN row.name
    ELSE IF "# name" \in DOMAIN row THEN row["# name"] ELSE ""

ResolvedNames(rows, Name(_)) == {Name(rows[i]) : i \in DOMAIN rows}

\* C24: deduplication loses no planet name: whatever the NASA and the EU
\* slot hold, the set of the planet_name values of the unified table is the
\* union of the resolved names of the NASA rows and of the EU rows.
C24_NoNameLost ==
    JustUnified =>
        {combined_data.t[i].planet_name : i \in DOMAIN combined_data.t}
            = ResolvedNames(RowsOf(nasa_data), ResolvedNasaName)
                 \cup ResolvedNames(RowsOf(eu_data), ResolvedEuName)

\* an EU table whose first name the NASA table has and whose second name
\* is new: three names from four rows
C24_NewNameAfterKnownName ==
    /\ JustUnified
    /\ nasa_data.some /\ eu_data.some
    /\ Len(nasa_data.t) = 2 /\ Len(eu_data.t) = 2
    /\ nasa_data.t[1] # nasa_data.t[2]
    /\ eu_data.t[1] = EuRowA /\ eu_data.t[2] = EuRowB
    /\ {combined_data.t[i].planet_name : i \in DOMAIN combined_data.t}
          = {"Kepler-452b", "HD 189733 b", "GJ 1214 b"}

----------------------------------------------------------------------------
(* Properties of create_unified_schema and enrich_data in a session *)

HasDerived(rows) == Columns(rows) \cap DerivedColumns # {}

\* C25: create_unified_schema rebuilds combined_data from nasa_data and
\* eu_data alone, whatever combined_data held: called twice in a row it
\* gives the same table, and called after enrich_data a table without any
\* derived field.  Derived fields appear in combined_data by enrich_data
\* only and every other operation leaves the table alone, so the table
\* save_data writes has derived fields only if enrich_data ran after the
\* last create_unified_schema.
C25_UnifyStartsAfresh ==
    /\ [][(last = "create_unified_schema" /\ last' = "create_unified_schema")
             => combined_data' = combined_data]_vars
    /\ [][last' = "create_unified_schema" =>
             /\ ~HasDerived(combined_data'.t)
             /\ Len(combined_data'.t) >= Len(RowsOf(nasa_data))]_vars
    /\ [][(HasDerived(combined_data'.t) /\ ~HasDerived(combined_data.t))
             => last' = "enrich_data"]_vars
    /\ [][last' \notin {"create_unified_schema", "enrich_data"}
             => combined_data' = combined_data]_vars
    /\ [][(last' = "save_data" /\ combined_data.some) =>
             \E n \in DOMAIN files' :
                /\ files'[n].kind = "json"
                /\ files'[n].body = combined_data.t]_vars

\* the table unified again after it was enriched and saved: the file has
\* the derived fields, the table has none
C25_UnifiedAgainAfterSave ==
    /\ JustUnified /\ HasRows(combined_data)
    /\ ~HasDerived(combined_data.t)
    /\ \E n \in DOMAIN files :
          /\ files[n].kind = "json"
          /\ DerivedColumns \subseteq Columns(files[n].body)
          /\ Len(files[n].body) = Len(combined_data.t)

----------------------------------------------------------------------------
(* Properties of --stats *)

\* C26: when --stats is given, main runs show_statistics and nothing else,
\* whatever other flags (--collect, --visualize, --all) come with it: no
\* fetch is issued, no table is saved and no chart is rendered.
C26_StatsAlone ==
    /\ [](args.stats =>
             /\ pc \in {"main", "show_statistics", "exit", "done", "crashed"}
             /\ last \in {"main", "show_statistics"}
             /\ nasa_data = [some |-> FALSE, t |-> <<>>]
             /\ eu_data = [some |-> FALSE, t |-> <<>>]
             /\ oec_data = [some |-> FALSE, t |-> <<>>]
             /\ DOMAIN files \subseteq {args.output}
             /\ (pc = "done" => last = "show_statistics"))
    /\ [][args.stats => (args' = args /\ files' = files)]_vars

\* a run with all four flags that ended after the statistics of the data
\* file an earlier run left
C26_StatsWithEveryFlag ==
    /\ pc = "done" /\ last = "show_statistics"
    /\ args.stats /\ args.collect /\ args.visualize /\ args.all
    /\ HasRows(combined_data)
    /\ DOMAIN files = {args.output}

----------------------------------------------------------------------------
(* Properties of the name of an EU row *)

\* C27: the name an EU row is deduplicated by and stored under is the
\* value of the 'name' column if the EU table has it, otherwise of the
\* '# name' column, otherwise the empty string: an EU row is kept exactly
\* when that name is not the name of a NASA row nor of an EU row before
\* it, and it is stored under that name.  Hence an EU table with neither
\* column leaves at most one row in the unified table, however many rows
\* it has.
C27_EuNameResolution ==
    JustUnified =>
        LET nasa == RowsOf(nasa_data)
            eu == RowsOf(eu_data)
            unified == combined_data.t
            taken(j) == {unified[i].planet_name : i \in DOMAIN nasa}
                           \cup {ResolvedEuName(eu[h]) : h \in 1 .. (j - 1)}
            kept == {j \in DOMAIN eu : ResolvedEuName(eu[j]) \notin taken(j)}
            place(j) == Len(nasa) + Cardinality({h \in kept : h <= j})
        IN  /\ Len(unified) = Len(nasa) + Cardinality(kept)
            /\ \A j \in kept : unified[place(j)].planet_name = ResolvedEuName(eu[j])
            /\ (eu # <<>> /\ Columns(eu) \cap {"name", "# name"} = {}) =>
                  /\ Cardinality(kept) <= 1
                  /\ \A j \in kept : unified[place(j)].planet_name = ""

\* an EU table of two rows with neither name column, unified after a NASA
\* table: its first row is kept under the empty name, its second is not
C27_NamelessEuTable ==
    /\ JustUnified
    /\ nasa_data.some /\ Len(nasa_data.t) = 2
    /\ eu_data.some /\ eu_data.t = EuNoName
    /\ Len(combined_data.t) = 3
    /\ combined_data.t[3].planet_name = ""
    /\ combined_data.t[3].planet_mass_jupiter = 257

====
